---- MODULE Spec2Model ----
(***************************************************************************)
(* A model of go_board.py: the minimal SGF scanner (parse_sgf_minimal),    *)
(* the coordinate mapper (sgf_to_rc), the overlay builder                  *)
(* (build_stones_and_numbers), the board geometry (make_go_board_spec),    *)
(* the renderer (render_svg) and the export loop (export_variants) behind  *)
(* the configuration loader (load_config), and main, which runs them one   *)
(* after the other.                                                        *)
(*                                                                         *)
(* Python strings are modelled as sequences of one-character strings, an   *)
(* Optional value as the empty sequence (None) or a one-element sequence,  *)
(* and a dict as the sequence of its <<key, value>> pairs in insertion     *)
(* order.                                                                  *)
(***************************************************************************)
EXTENDS Integers, Sequences, FiniteSets, TLC

VARIABLES
    \* parse_sgf_minimal
    text,        \* the argument of parse_sgf_minimal
    s,           \* the text after s.replace("\r", "")
    idx,         \* cursor of the outer loop (1-based)
    j,           \* cursor of the value loops (1-based)
    ident,       \* the identifier read by read_ident
    vals,        \* bracket values collected for the current identifier
    val_chars,   \* characters of the bracket value being read
    props,       \* dict: upper-cased identifier -> list of values
    order,       \* list of (color, coordinate) moves
    parsed,      \* the SGFParsed result, once returned
    ppc,         \* position of the scanner
    \* build_stones_and_numbers
    rec,           \* the SGFParsed argument
    render,        \* the SGFRenderOptions argument
    stones,        \* dict (row, col) -> color
    sequence,      \* the ordered log of (row, col, color, origin)
    applied_moves, \* the moves applied, (row, col, color)
    stones_list,   \* first component of the result
    numbers_list,  \* second component of the result (Optional)
    bpc,           \* position of the builder
    \* load_config, make_go_board_spec, export_variants
    raw_grid_size, \* "grid_size" of config.json
    raw_variants,  \* "export.variants" of config.json
    raw_sgf,       \* "sgf" of config.json, and whether sgf.path names a file
    cfg,           \* the Config returned by load_config (Optional)
    spec,          \* the GoBoardSpec (Optional)
    in_stones,     \* the stones handed to export_variants (Optional)
    in_numbers,    \* the numbers handed to export_variants (Optional)
    vi,            \* place in cfg.export.variants (1-based)
    written,       \* the files written: variant, size and markup
    warnings,      \* the variants warned about
    epc            \* position of the main program

parseVars == <<text, s, idx, j, ident, vals, val_chars, props, order, parsed, ppc>>

buildVars ==
    <<rec, render, stones, sequence, applied_moves, stones_list, numbers_list, bpc>>

exportVars ==
    <<raw_grid_size, raw_variants, raw_sgf, cfg, spec, in_stones, in_numbers, vi,
      written, warnings, epc>>

vars == <<parseVars, buildVars, exportVars>>

None == <<>>
Some(x) == <<x>>

(***************************************************************************)
(* Characters                                                              *)
(***************************************************************************)
\* The printable ASCII characters, code 32 first (code 96, the grave accent, is
\* written out: a string of the module cannot hold it).
Ascii ==
    <<" ", "!", "\"", "#", "$", "%", "&", "'", "(", ")", "*", "+", ",", "-", ".", "/",
      "0", "1", "2", "3", "4", "5", "6", "7", "8", "9", ":", ";", "<", "=", ">", "?",
      "@", "A", "B", "C", "D", "E", "F", "G", "H", "I", "J", "K", "L", "M", "N", "O",
      "P", "Q", "R", "S", "T", "U", "V", "W", "X", "Y", "Z", "[", "\\", "]", "^", "_",
      "grave", "a", "b", "c", "d", "e", "f", "g", "h", "i", "j", "k", "l", "m", "n", "o",
      "p", "q", "r", "s", "t", "u", "v", "w", "x", "y", "z", "{", "|", "}", "~">>

\* the code of each printable character: 31 + its place in Ascii
AsciiCode ==
    [ch \in {Ascii[i] : i \in 1..Len(Ascii)} |->
        31 + (CHOOSE i \in 1..Len(Ascii) : Ascii[i] = ch)]

\* ord(ch): the control characters used here, else the code of the printable one
Ord(ch) ==
    CASE ch = "\t" -> 9
      [] ch = "\n" -> 10
      [] ch = "\r" -> 13
      [] OTHER -> AsciiCode[ch]

Chr(n) == Ascii[n - 31]

\* str.isalpha on one character
IsAlpha(ch) == LET o == Ord(ch) IN (o >= 65 /\ o <= 90) \/ (o >= 97 /\ o <= 122)

IsDigit(ch) == LET o == Ord(ch) IN o >= 48 /\ o <= 57

IsSpace(ch) == ch \in {" ", "\t", "\n", "\r"}

\* str.upper on one character
UpperChar(ch) == LET o == Ord(ch) IN IF o >= 97 /\ o <= 122 THEN Chr(o - 32) ELSE ch

\* str.upper
Upper(str) == [i \in 1..Len(str) |-> UpperChar(str[i])]

\* str.lower on one character
LowerChar(ch) == LET o == Ord(ch) IN IF o >= 65 /\ o <= 90 THEN Chr(o + 32) ELSE ch

Lower(str) == [i \in 1..Len(str) |-> LowerChar(str[i])]

RECURSIVE StripCR(_)
\* s.replace("\r", "")
StripCR(str) ==
    IF str = <<>> THEN <<>>
    ELSE IF Head(str) = "\r" THEN StripCR(Tail(str))
    ELSE <<Head(str)>> \o StripCR(Tail(str))

(***************************************************************************)
(* Dicts as insertion-ordered sequences of <<key, value>>                  *)
(***************************************************************************)
DictHas(d, k) == \E i \in 1..Len(d) : d[i][1] = k

DictGet(d, k, default) ==
    IF DictHas(d, k) THEN d[CHOOSE i \in 1..Len(d) : d[i][1] = k][2] ELSE default

\* d[k] = v: an existing key keeps its place, a new key goes last
DictSet(d, k, v) ==
    IF DictHas(d, k)
    THEN [i \in 1..Len(d) |-> IF d[i][1] = k THEN <<k, v>> ELSE d[i]]
    ELSE Append(d, <<k, v>>)

\* del d[k]
DictDel(d, k) == SelectSeq(d, LAMBDA e : e[1] # k)

(***************************************************************************)
(* int(v) for the value of SZ                                              *)
(***************************************************************************)
RECURSIVE LStrip(_)
LStrip(str) ==
    IF str # <<>> /\ IsSpace(Head(str)) THEN LStrip(Tail(str)) ELSE str

RECURSIVE RStrip(_)
RStrip(str) ==
    IF str # <<>> /\ IsSpace(str[Len(str)])
    THEN RStrip(SubSeq(str, 1, Len(str) - 1)) ELSE str

\* the literal without surrounding whitespace and without its sign
IntBody(v) ==
    LET t == RStrip(LStrip(v))
    IN IF t # <<>> /\ t[1] \in {"+", "-"} THEN Tail(t) ELSE t

IntNegative(v) ==
    LET t == RStrip(LStrip(v)) IN t # <<>> /\ t[1] = "-"

\* int(v) succeeds: digits, single underscores between digits only
IsIntLiteral(v) ==
    LET b == IntBody(v)
    IN /\ b # <<>>
       /\ \A i \in 1..Len(b) : IsDigit(b[i]) \/ b[i] = "_"
       /\ IsDigit(b[1]) /\ IsDigit(b[Len(b)])
       /\ \A i \in 1..(Len(b) - 1) : ~(b[i] = "_" /\ b[i + 1] = "_")

RECURSIVE DigitsValue(_, _)
DigitsValue(b, acc) ==
    IF b = <<>> THEN acc
    ELSE IF Head(b) = "_" THEN DigitsValue(Tail(b), acc)
    ELSE DigitsValue(Tail(b), 10 * acc + (Ord(Head(b)) - 48))

IntValue(v) ==
    LET n == DigitsValue(IntBody(v), 0) IN IF IntNegative(v) THEN 0 - n ELSE n

(***************************************************************************)
(* parse_sgf_minimal                                                       *)
(***************************************************************************)
RECURSIVE IdentEnd(_)
\* read_ident: the index after the run of letters that starts at i
IdentEnd(i) ==
    IF i <= Len(s) /\ IsAlpha(s[i]) THEN IdentEnd(i + 1) ELSE i

\* ch in ";()"
IsStructural(ch) == ch \in {";", "(", ")"}

\* a mutant of MoreVals: a value is read after every identifier
MoreValsAlways == TRUE

\* the guard of the value loop: while j < len(s) and s[j] == "["
MoreVals == j <= Len(s) /\ s[j] = "["

\* the guard of read_bracket_val: if j >= len(s) or s[j] != "["
ExpectedBracketMissing(k) == k > Len(s) \/ s[k] # "["

\* if ch == "\\" and j + 1 < len(s)
IsEscape(k) == s[k] = "\\" /\ k + 1 <= Len(s)

\* a mutant of AfterEscape: the escape is taken but the cursor stays
AfterEscapeStuck(k) == k

\* j += 2
AfterEscape(k) == k + 2

\* a mutant of MoveCoord: the last bracket value of a move
MoveCoordLast(vs) == IF vs # <<>> THEN vs[Len(vs)] ELSE <<>>

\* move_coord = vals[0] if vals else ""
MoveCoord(vs) == IF vs # <<>> THEN vs[1] ELSE <<>>

IsMoveIdent(up) == up \in {<<"B">>, <<"W">>}

\* a mutant of SizeVal: only the last SZ value is tried
SizeValLastOnly(vs) ==
    IF vs # <<>> /\ IsIntLiteral(vs[Len(vs)]) THEN Some(IntValue(vs[Len(vs)])) ELSE None

RECURSIVE SizeVal(_)
\* for v in props.get("SZ", [])[::-1]: try: size_val = int(v); break
SizeVal(vs) ==
    IF vs = <<>> THEN None
    ELSE IF IsIntLiteral(vs[Len(vs)]) THEN Some(IntValue(vs[Len(vs)]))
    ELSE SizeVal(SubSeq(vs, 1, Len(vs) - 1))

\* the builder is not running
BuildIdle ==
    /\ rec = None
    /\ render = None
    /\ stones = <<>>
    /\ sequence = <<>>
    /\ applied_moves = <<>>
    /\ stones_list = <<>>
    /\ numbers_list = None
    /\ bpc = "idle"

\* the main program is not running
ExportIdle ==
    /\ raw_grid_size = 0
    /\ raw_variants = <<>>
    /\ raw_sgf = None
    /\ cfg = None
    /\ spec = None
    /\ in_stones = None
    /\ in_numbers = None
    /\ vi = 0
    /\ written = <<>>
    /\ warnings = <<>>
    /\ epc = "idle"

ParseStart ==
    /\ ppc = "start"
    /\ s' = StripCR(text)
    /\ idx' = 1
    /\ ppc' = "outer"
    /\ UNCHANGED <<text, j, ident, vals, val_chars, props, order, parsed>>
    /\ UNCHANGED <<buildVars, exportVars>>

OuterSkip ==
    /\ ppc = "outer"
    /\ idx <= Len(s)
    /\ IsStructural(s[idx])
    /\ idx' = idx + 1
    /\ UNCHANGED <<text, s, j, ident, vals, val_chars, props, order, parsed, ppc>>
    /\ UNCHANGED <<buildVars, exportVars>>

OuterOther ==
    /\ ppc = "outer"
    /\ idx <= Len(s)
    /\ ~IsStructural(s[idx])
    /\ ~IsAlpha(s[idx])
    /\ idx' = idx + 1
    /\ UNCHANGED <<text, s, j, ident, vals, val_chars, props, order, parsed, ppc>>
    /\ UNCHANGED <<buildVars, exportVars>>

OuterIdent ==
    /\ ppc = "outer"
    /\ idx <= Len(s)
    /\ ~IsStructural(s[idx])
    /\ IsAlpha(s[idx])
    /\ ident' = SubSeq(s, idx, IdentEnd(idx) - 1)
    /\ j' = IdentEnd(idx)
    /\ vals' = <<>>
    /\ ppc' = "vals"
    /\ UNCHANGED <<text, s, idx, val_chars, props, order, parsed>>
    /\ UNCHANGED <<buildVars, exportVars>>

\* the value loop calls read_bracket_val, which checks for "[" and steps over it
BracketOpen ==
    /\ ppc = "vals"
    /\ MoreVals
    /\ IF ExpectedBracketMissing(j)
       THEN ppc' = "fatal" /\ UNCHANGED <<j, val_chars>>
       ELSE ppc' = "bracket" /\ j' = j + 1 /\ val_chars' = <<>>
    /\ UNCHANGED <<text, s, idx, ident, vals, props, order, parsed>>
    /\ UNCHANGED <<buildVars, exportVars>>

BracketEscape ==
    /\ ppc = "bracket"
    /\ j <= Len(s)
    /\ IsEscape(j)
    /\ val_chars' = Append(val_chars, s[j + 1])
    /\ j' = AfterEscape(j)
    /\ UNCHANGED <<text, s, idx, ident, vals, props, order, parsed, ppc>>
    /\ UNCHANGED <<buildVars, exportVars>>

BracketClose ==
    /\ ppc = "bracket"
    /\ j <= Len(s)
    /\ ~IsEscape(j)
    /\ s[j] = "]"
    /\ j' = j + 1
    /\ vals' = Append(vals, val_chars)
    /\ ppc' = "vals"
    /\ UNCHANGED <<text, s, idx, ident, val_chars, props, order, parsed>>
    /\ UNCHANGED <<buildVars, exportVars>>

BracketChar ==
    /\ ppc = "bracket"
    /\ j <= Len(s)
    /\ ~IsEscape(j)
    /\ s[j] # "]"
    /\ val_chars' = Append(val_chars, s[j])
    /\ j' = j + 1
    /\ UNCHANGED <<text, s, idx, ident, vals, props, order, parsed, ppc>>
    /\ UNCHANGED <<buildVars, exportVars>>

\* the text ends inside a bracket value: read_bracket_val returns what it has
BracketEof ==
    /\ ppc = "bracket"
    /\ j > Len(s)
    /\ vals' = Append(vals, val_chars)
    /\ ppc' = "vals"
    /\ UNCHANGED <<text, s, idx, j, ident, val_chars, props, order, parsed>>
    /\ UNCHANGED <<buildVars, exportVars>>

PropertyDone ==
    /\ ppc = "vals"
    /\ ~MoreVals
    /\ LET up == Upper(ident)
       IN IF IsMoveIdent(up)
          THEN /\ order' = Append(order, <<up, MoveCoord(vals)>>)
               /\ UNCHANGED props
          ELSE /\ props' = DictSet(props, up, DictGet(props, up, <<>>) \o vals)
               /\ UNCHANGED order
    /\ idx' = j
    /\ ppc' = "outer"
    /\ UNCHANGED <<text, s, j, ident, vals, val_chars, parsed>>
    /\ UNCHANGED <<buildVars, exportVars>>

ParseFinish ==
    /\ ppc = "outer"
    /\ idx > Len(s)
    /\ parsed' = Some([size |-> SizeVal(DictGet(props, <<"S", "Z">>, <<>>)),
                       ab |-> DictGet(props, <<"A", "B">>, <<>>),
                       aw |-> DictGet(props, <<"A", "W">>, <<>>),
                       ae |-> DictGet(props, <<"A", "E">>, <<>>),
                       moves |-> order])
    /\ ppc' = "done"
    /\ UNCHANGED <<text, s, idx, j, ident, vals, val_chars, props, order>>
    /\ UNCHANGED <<buildVars, exportVars>>

NextParse ==
    \/ ParseStart
    \/ OuterSkip
    \/ OuterOther
    \/ OuterIdent
    \/ BracketOpen
    \/ BracketEscape
    \/ BracketClose
    \/ BracketChar
    \/ BracketEof
    \/ PropertyDone
    \/ ParseFinish

(***************************************************************************)
(* Input texts                                                             *)
(***************************************************************************)
MaxLen == 5
MaxItems == 3
MaxFairLen == 4

ScanChars == {"B", "w", "[", "]", "\\", ";"}

RECURSIVE SeqsUpTo(_, _)
\* the sequences over S of length at most n
SeqsUpTo(S, n) ==
    IF n = 0 THEN {<<>>}
    ELSE LET shorter == SeqsUpTo(S, n - 1)
         IN shorter \cup {Append(q, x) : q \in shorter, x \in S}

RECURSIVE Concat(_)
Concat(items) == IF items = <<>> THEN <<>> ELSE Head(items) \o Concat(Tail(items))

SizeItems ==
    { <<"S", "Z", "[", "9", "]">>,
      <<"S", "Z", "[", "1", "3", "]">>,
      <<"s", "z", "[", "x", "]">>,
      <<"[", " ", "1", "_", "9", "]">>,
      <<"[", "-", "]">>,
      <<"S", "Z">>,
      <<"A", "B", "[", "a", "a", "]">>,
      <<"X", "(", ";", "\r">>,
      <<"C", "[", "B", "\\", "]", "]">>,
      <<"W", "[", "a", "b", "]">> }

Texts ==
    SeqsUpTo(ScanChars, MaxLen)
        \cup {Concat(items) : items \in SeqsUpTo(SizeItems, MaxItems)}

\* the scanner is not running
ParseIdle ==
    /\ text = <<>>
    /\ s = <<>>
    /\ idx = 0
    /\ j = 0
    /\ ident = <<>>
    /\ vals = <<>>
    /\ val_chars = <<>>
    /\ props = <<>>
    /\ order = <<>>
    /\ parsed = None
    /\ ppc = "idle"

\* parse_sgf_minimal has been called and has not yet run
ParseCalled ==
    /\ s = <<>>
    /\ idx = 0
    /\ j = 0
    /\ ident = <<>>
    /\ vals = <<>>
    /\ val_chars = <<>>
    /\ props = <<>>
    /\ order = <<>>
    /\ parsed = None
    /\ ppc = "start"

InitParse ==
    /\ text \in Texts
    /\ ParseCalled
    /\ BuildIdle
    /\ ExportIdle

SpecParse == InitParse /\ [][NextParse]_vars

\* the scanner alone on the short texts, run to its end: a sequential program takes
\* its next step whenever it has one
InitScan ==
    /\ text \in SeqsUpTo(ScanChars, MaxFairLen)
    /\ ParseCalled
    /\ BuildIdle
    /\ ExportIdle

SpecParseFair == InitScan /\ [][NextParse]_vars /\ WF_vars(NextParse)

(***************************************************************************)
(* The properties of a text, read off the text itself                      *)
(***************************************************************************)
RECURSIVE RefIdentEnd(_, _)
\* the index after the run of letters of str that starts at i
RefIdentEnd(str, i) ==
    IF i <= Len(str) /\ IsAlpha(str[i]) THEN RefIdentEnd(str, i + 1) ELSE i

RECURSIVE CloseAt(_, _)
\* the index of the first unescaped "]" of str at or after k, Len(str) + 1 if none
CloseAt(str, k) ==
    IF k > Len(str) THEN k
    ELSE IF str[k] = "\\" /\ k < Len(str) THEN CloseAt(str, k + 2)
    ELSE IF str[k] = "]" THEN k
    ELSE CloseAt(str, k + 1)

RECURSIVE Unescape(_)
\* a backslash followed by a character stands for that character
Unescape(v) ==
    IF v = <<>> THEN <<>>
    ELSE IF Head(v) = "\\" /\ Len(v) >= 2 THEN <<v[2]>> \o Unescape(SubSeq(v, 3, Len(v)))
    ELSE <<Head(v)>> \o Unescape(Tail(v))

RECURSIVE RefValues(_, _)
\* the bracket values of str that follow one another from k on
RefValues(str, k) ==
    IF k <= Len(str) /\ str[k] = "["
    THEN LET c == CloseAt(str, k + 1)
         IN <<Unescape(SubSeq(str, k + 1, c - 1))>> \o RefValues(str, c + 1)
    ELSE <<>>

RECURSIVE RefValuesEnd(_, _)
\* the index after those values
RefValuesEnd(str, k) ==
    IF k <= Len(str) /\ str[k] = "["
    THEN LET c == CloseAt(str, k + 1)
         IN IF c > Len(str) THEN c ELSE RefValuesEnd(str, c + 1)
    ELSE k

RECURSIVE RefProps(_, _)
\* the properties of str from i on, in reading order: identifier and values
RefProps(str, i) ==
    IF i > Len(str) THEN <<>>
    ELSE IF IsAlpha(str[i])
    THEN LET e == RefIdentEnd(str, i)
         IN <<[ident |-> SubSeq(str, i, e - 1), vals |-> RefValues(str, e)]>>
                \o RefProps(str, RefValuesEnd(str, e))
    ELSE RefProps(str, i + 1)

IsRefMove(p) == p.ident \in {<<"B">>, <<"W">>, <<"b">>, <<"w">>}

RefColor(p) == IF p.ident \in {<<"B">>, <<"b">>} THEN <<"B">> ELSE <<"W">>

\* the B and W properties of str in reading order, each with its first value
RefMoves(str) ==
    LET moves == SelectSeq(RefProps(str, 1), IsRefMove)
    IN [i \in 1..Len(moves) |->
           <<RefColor(moves[i]),
             IF moves[i].vals = <<>> THEN <<>> ELSE moves[i].vals[1]>>]

IsRefSize(p) == p.ident \in {<<"S", "Z">>, <<"s", "z">>, <<"S", "z">>, <<"s", "Z">>}

RECURSIVE AllValues(_)
AllValues(ps) == IF ps = <<>> THEN <<>> ELSE Head(ps).vals \o AllValues(Tail(ps))

\* the last of all SZ values of str that is an integer literal, None if there is none
RefSize(str) ==
    LET all == AllValues(SelectSeq(RefProps(str, 1), IsRefSize))
        ok == {i \in 1..Len(all) : IsIntLiteral(all[i])}
    IN IF ok = {} THEN None
       ELSE Some(IntValue(all[CHOOSE i \in ok : \A k \in ok : k <= i]))

\* str has an identifier followed at once by a character that is neither a letter
\* nor "[": a property with no value where one was expected
HasBareProperty(str) ==
    \E i \in 1..Len(RefProps(str, 1)) : RefProps(str, 1)[i].vals = <<>>

(***************************************************************************)
(* Claims about parse_sgf_minimal                                          *)
(***************************************************************************)
\* C1 (as amended): parse never fails: the bracket reader is entered only at an
\* opening bracket, so an identifier that no bracket follows is a property with no
\* values, and the scan of every text ends with a parsed record.
C1_ParseNeverFails ==
    /\ ppc # "fatal"
    /\ ppc = "done" => parsed # None

\* C1 witness: a text with an identifier that no bracket follows has been parsed
\* to the end.
C1_BareIdentParsed ==
    /\ ppc = "done"
    /\ s = <<"B", ";">>
    /\ HasBareProperty(s)
    /\ parsed # None

\* C1 as stated: a text with an identifier that no bracket follows makes parse
\* fail, and every other text is parsed without error.
C1_BareIdentFails ==
    /\ (ppc = "done" => ~HasBareProperty(s))
    /\ (ppc = "fatal" => HasBareProperty(s))

\* C5: the moves returned by parse are exactly the B and W properties of the text in
\* reading order, whatever ";", "(" and ")" lie between them, each with its first
\* bracket value only (no or an empty value: a pass); other identifiers and their
\* values add nothing.
C5_MovesInEncounterOrder ==
    ppc = "done" => parsed[1].moves = RefMoves(StripCR(text))

\* C5 witness: a parsed text with structure characters, a move with two values and
\* a property that is no move.
C5_MovesParsed ==
    /\ ppc = "done"
    /\ \E i \in 1..Len(s) : IsStructural(s[i])
    /\ \E i \in 1..Len(RefProps(s, 1)) :
          /\ IsRefMove(RefProps(s, 1)[i])
          /\ Len(RefProps(s, 1)[i].vals) = 2
          /\ RefProps(s, 1)[i].vals[1] # RefProps(s, 1)[i].vals[2]
    /\ Len(parsed[1].moves) = 1
    /\ Len(RefProps(s, 1)) >= 2

\* C6: the size returned by parse is the last SZ value that parses as an integer,
\* values that do not parse being skipped, and is absent when no SZ value parses.
C6_SizeIsLastIntegerSZ ==
    ppc = "done" => parsed[1].size = RefSize(StripCR(text))

\* C6 witness: the last SZ value does not parse and an earlier one gives the size.
C6_SizeSkipsNonInteger ==
    /\ ppc = "done"
    /\ parsed[1].size = Some(9)
    /\ LET all == DictGet(props, <<"S", "Z">>, <<>>)
       IN Len(all) >= 2 /\ ~IsIntLiteral(all[Len(all)])

\* the cursor moves forward in every round of the outer loop and of the value loops
\* and never passes the end of the text
CursorAdvances ==
    /\ (ppc = "bracket" /\ ppc' = "bracket") => j' > j
    /\ (ppc = "bracket" /\ ppc' = "vals" /\ j <= Len(s)) => j' > j
    /\ (ppc = "vals" /\ ppc' = "bracket") => j' > j
    /\ (ppc \in {"outer", "vals"} /\ ppc' = "outer") => idx' > idx
    /\ (ppc = "outer" /\ ppc' = "vals") => j' > idx
    /\ ppc # "start" => (idx' <= Len(s) + 1 /\ j' <= Len(s) + 1)

\* C10: the scanner terminates on every text: each round of the outer loop and of
\* the bracket-value loop moves the cursor forward, and the scan ends with the
\* cursor at the end of the text.
C10_ScanTerminates ==
    /\ [][CursorAdvances]_vars
    /\ <>(ppc = "done" /\ idx = Len(s) + 1)

\* C10 witness: the scan of a text that ends with a backslash inside a bracket value
\* that is never closed has ended.
C10_ScanEndedInOpenValue ==
    /\ ppc = "done"
    /\ idx = Len(s) + 1
    /\ s # <<>> /\ s[Len(s)] = "\\"
    /\ vals # <<>>
    /\ vals[Len(vals)] # <<>>
    /\ vals[Len(vals)][Len(vals[Len(vals)])] = "\\"
    /\ CloseAt(s, 1) > Len(s)

(***************************************************************************)
(* sgf_to_rc and build_stones_and_numbers                                  *)
(***************************************************************************)
\* the colors "B" and "W"
Black == <<"B">>
White == <<"W">>

\* sgf_to_rc: None for a pass, else Some(<<row, col>>)
sgf_to_rc(coord) ==
    IF coord = <<>> THEN None
    ELSE IF Len(coord) # 2 THEN None
    ELSE LET r == Ord(coord[2]) - Ord("a") + 1
             c == Ord(coord[1]) - Ord("a") + 1
         IN IF r < 1 \/ c < 1 THEN None ELSE Some(<<r, c>>)

RECURSIVE SetupStones(_, _, _)
\* for code in parsed.ab / parsed.aw: place the stone and log it as "setup"
SetupStones(codes, color, acc) ==
    IF codes = <<>> THEN acc
    ELSE LET rc == sgf_to_rc(Head(codes))
         IN IF rc # None
            THEN SetupStones(Tail(codes), color,
                     [stones |-> DictSet(acc.stones, rc[1], color),
                      sequence |-> Append(acc.sequence,
                                          <<rc[1][1], rc[1][2], color, "setup">>)])
            ELSE SetupStones(Tail(codes), color, acc)

\* a mutant of ClearStone: AE is ignored
ClearIgnored(d, rc) == d

\* if rc and rc in stones: del stones[rc]
ClearStone(d, rc) == IF rc # None /\ DictHas(d, rc[1]) THEN DictDel(d, rc[1]) ELSE d

RECURSIVE ClearStones(_, _)
\* for code in parsed.ae
ClearStones(codes, d) ==
    IF codes = <<>> THEN d
    ELSE ClearStones(Tail(codes), ClearStone(d, sgf_to_rc(Head(codes))))

\* 10**12 in the source: more than any number of moves, and than TLC's integers hold
NoLimit == 10^9

\* a mutant of Remaining: a limit of 0 lets no move through
RemainingAsGiven(limit) == limit

\* remaining = render.moves_limit if render.moves_limit > 0 else 10**12
Remaining(limit) == IF limit > 0 THEN limit ELSE NoLimit

\* stones[rc] = color; applied_moves.append(...); sequence.append(...)
PlaceMove(acc, rc, color) ==
    [stones |-> DictSet(acc.stones, rc, color),
     applied |-> Append(acc.applied, <<rc[1], rc[2], color>>),
     sequence |-> Append(acc.sequence, <<rc[1], rc[2], color, "move">>)]

RECURSIVE LimitedMoves(_, _, _)
\* the loop of mode "moves": stops when remaining <= 0, a pass costs nothing
LimitedMoves(moves, remaining, acc) ==
    IF moves = <<>> \/ remaining <= 0 THEN acc
    ELSE LET rc == sgf_to_rc(Head(moves)[2])
         IN IF rc = None
            THEN LimitedMoves(Tail(moves), remaining, acc)
            ELSE LimitedMoves(Tail(moves), remaining - 1,
                              PlaceMove(acc, rc[1], Head(moves)[1]))

RECURSIVE AllMoves(_, _)
\* the loop of the other mode: every move that is no pass
AllMoves(moves, acc) ==
    IF moves = <<>> THEN acc
    ELSE LET rc == sgf_to_rc(Head(moves)[2])
         IN IF rc = None
            THEN AllMoves(Tail(moves), acc)
            ELSE AllMoves(Tail(moves), PlaceMove(acc, rc[1], Head(moves)[1]))

\* a mutant of NumberFrom1: the count starts at 0
NumberFrom0(entries) ==
    [i \in 1..Len(entries) |-> <<entries[i][1], entries[i][2], i - 1>>]

\* n = 1; for ... in entries: numbers_list.append((r, c, n)); n += 1
NumberFrom1(entries) ==
    [i \in 1..Len(entries) |-> <<entries[i][1], entries[i][2], i>>]

\* the stones dict and the log after the setup lists (lines 454-471)
AfterSetup(p) ==
    LET black == SetupStones(p.ab, Black, [stones |-> <<>>, sequence |-> <<>>])
        white == SetupStones(p.aw, White, black)
    IN [stones |-> ClearStones(p.ae, white.stones), sequence |-> white.sequence]

\* the stones dict, the applied moves and the log after the moves (lines 473-494)
AfterMoves(p, r) ==
    LET setup == AfterSetup(p)
        start == [stones |-> setup.stones, applied |-> <<>>, sequence |-> setup.sequence]
    IN IF r.mode = "moves"
       THEN LimitedMoves(p.moves, Remaining(r.moves_limit), start)
       ELSE AllMoves(p.moves, start)

\* stones_list = [(r, c, stones[(r, c)]) for (r, c) in stones.keys()]
StonesList(d) == [i \in 1..Len(d) |-> <<d[i][1][1], d[i][1][2], d[i][2]>>]

\* the numbers returned (lines 498-514)
NumbersList(r, acc) ==
    IF r.numbering = "none" THEN None
    ELSE IF r.numbering = "moves" THEN Some(NumberFrom1(acc.applied))
    ELSE IF r.numbering = "all" THEN Some(NumberFrom1(acc.sequence))
    ELSE Some(<<>>)

Build ==
    /\ bpc = "called"
    /\ \E acc \in {AfterMoves(rec[1], render[1])} :
          /\ stones' = acc.stones
          /\ applied_moves' = acc.applied
          /\ sequence' = acc.sequence
          /\ stones_list' = StonesList(acc.stones)
          /\ numbers_list' = NumbersList(render[1], acc)
    /\ bpc' = "done"
    /\ UNCHANGED <<rec, render>>
    /\ UNCHANGED <<parseVars, exportVars>>

NextBuild == Build

(***************************************************************************)
(* Inputs of build_stones_and_numbers                                      *)
(***************************************************************************)
MaxTokens == 3
MaxLimit == 2

\* coordinates of the setup lists: two points and a token that maps to no point
SetupCoords == {<<"a", "a">>, <<"b", "a">>, <<"A", "a">>}

\* coordinates of the moves: the same two points and the pass
MoveCoords == {<<"a", "a">>, <<"b", "a">>, <<>>}

Moves == {Black, White} \X MoveCoords

\* the parsed records with at most MaxTokens coordinates in all
Records ==
    UNION { UNION { UNION {
        { [size |-> None, ab |-> b, aw |-> w, ae |-> e, moves |-> m] :
              m \in SeqsUpTo(Moves, MaxTokens - Len(b) - Len(w) - Len(e)) }
          : e \in SeqsUpTo(SetupCoords, MaxTokens - Len(b) - Len(w)) }
          : w \in SeqsUpTo(SetupCoords, MaxTokens - Len(b)) }
          : b \in SeqsUpTo(SetupCoords, MaxTokens) }

RenderOptions ==
    [mode : {"position", "moves"}, moves_limit : 0..MaxLimit,
     numbering : {"none", "moves", "all"}]

InitBuild ==
    /\ rec \in {Some(p) : p \in Records}
    /\ render \in {Some(r) : r \in RenderOptions}
    /\ stones = <<>>
    /\ sequence = <<>>
    /\ applied_moves = <<>>
    /\ stones_list = <<>>
    /\ numbers_list = None
    /\ bpc = "called"
    /\ ParseIdle
    /\ ExportIdle

SpecBuild == InitBuild /\ [][NextBuild]_vars

(***************************************************************************)
(* Claims about build_stones_and_numbers                                   *)
(***************************************************************************)
\* the coordinates of a list that map to a point, as points, in list order
PointsOf(codes) ==
    LET valid == SelectSeq(codes, LAMBDA c : sgf_to_rc(c) # None)
    IN [i \in 1..Len(valid) |-> sgf_to_rc(valid[i])[1]]

\* the moves of a list that are no pass, in list order
NonPass(moves) == SelectSeq(moves, LAMBDA m : sgf_to_rc(m[2]) # None)

Min(a, b) == IF a <= b THEN a ELSE b

\* the moves the claim says are applied
ExpectedMoves(p, r) ==
    LET np == NonPass(p.moves)
    IN IF r.mode = "moves" /\ r.moves_limit > 0
       THEN SubSeq(np, 1, Min(r.moves_limit, Len(np)))
       ELSE np

\* C2: build applies, in file order, the first min(N, number of non-pass moves)
\* non-pass moves with mode "moves" and limit N > 0, and every non-pass move with
\* limit 0 or with mode "position"; the result is that of the record cut down to
\* those moves, so a later move is in neither the stones nor the numbers.
C2_AppliedMovesArePrefix ==
    bpc = "done" =>
        LET p == rec[1]
            r == render[1]
            exp == ExpectedMoves(p, r)
            cut == AfterMoves([p EXCEPT !.moves = exp], [r EXCEPT !.mode = "position"])
        IN /\ applied_moves =
                  [i \in 1..Len(exp) |->
                      <<sgf_to_rc(exp[i][2])[1][1], sgf_to_rc(exp[i][2])[1][2], exp[i][1]>>]
           /\ stones_list = StonesList(cut.stones)
           /\ r.numbering = "moves" =>
                  /\ Len(numbers_list[1]) = Len(exp)
                  /\ \A i \in 1..Len(exp) :
                        numbers_list[1][i] =
                            <<sgf_to_rc(exp[i][2])[1][1], sgf_to_rc(exp[i][2])[1][2], i>>
           /\ r.numbering = "all" =>
                  Len(numbers_list[1]) = Len(PointsOf(p.ab)) + Len(PointsOf(p.aw)) + Len(exp)

\* C2 witness: with limit 1 a pass came first, the move after it was applied and
\* the move after that was not.
C2_LimitReachedAfterPass ==
    /\ bpc = "done"
    /\ render[1].mode = "moves"
    /\ render[1].moves_limit = 1
    /\ render[1].numbering = "moves"
    /\ Len(rec[1].moves) = 3
    /\ sgf_to_rc(rec[1].moves[1][2]) = None
    /\ Len(NonPass(rec[1].moves)) = 2
    /\ Len(applied_moves) = 1
    /\ Len(numbers_list[1]) = 1

\* the writes of a record in the order the builder makes them
WritesOf(p, applied) ==
    LET b == PointsOf(p.ab)
        w == PointsOf(p.aw)
        e == PointsOf(p.ae)
    IN [i \in 1..Len(b) |-> [kind |-> "set", rc |-> b[i], color |-> Black]]
         \o [i \in 1..Len(w) |-> [kind |-> "set", rc |-> w[i], color |-> White]]
         \o [i \in 1..Len(e) |-> [kind |-> "del", rc |-> e[i], color |-> <<>>]]
         \o [i \in 1..Len(applied) |->
                [kind |-> "set", rc |-> <<applied[i][1], applied[i][2]>>,
                 color |-> applied[i][3]]]

\* C3: the stones returned hold at most one entry per point, and a point holds
\* color c exactly if the last write to it, in the order addBlack, addWhite,
\* addEmpty, applied moves, set c; it is absent if that write was an addEmpty or if
\* nothing wrote to it.
C3_LastWriterWins ==
    bpc = "done" =>
        LET ops == WritesOf(rec[1], applied_moves)
            at(pt) == {i \in 1..Len(stones_list) :
                          <<stones_list[i][1], stones_list[i][2]>> = pt}
            points == {ops[i].rc : i \in 1..Len(ops)}
                        \cup {<<stones_list[i][1], stones_list[i][2]>> :
                                 i \in 1..Len(stones_list)}
        IN \A pt \in points :
              LET touch == {i \in 1..Len(ops) : ops[i].rc = pt}
                  last == CHOOSE i \in touch : \A k \in touch : k <= i
              IN IF touch = {} \/ ops[last].kind = "del"
                 THEN at(pt) = {}
                 ELSE /\ Cardinality(at(pt)) = 1
                      /\ \A i \in at(pt) : stones_list[i][3] = ops[last].color

\* C3 witness: a point set by addBlack, cleared by addEmpty and played on by White
\* holds the white stone, and nothing else is on the board.
C3_ClearedThenPlayed ==
    /\ bpc = "done"
    /\ rec[1].ab = <<<<"a", "a">>>>
    /\ rec[1].ae = <<<<"a", "a">>>>
    /\ rec[1].moves = <<<<<<"W">>, <<"a", "a">>>>>>
    /\ stones_list = <<<<1, 1, <<"W">>>>>>

\* C4: with numbering "all" the numbers list every logged entry once: the addBlack
\* entries in list order, then the addWhite entries, then the applied moves in play
\* order, numbered 1, 2, 3, ... without gaps; an entry whose point addEmpty cleared
\* keeps its number and a point written several times is numbered once per write.
C4_NumberingAll ==
    (bpc = "done" /\ render[1].numbering = "all") =>
        LET log == PointsOf(rec[1].ab) \o PointsOf(rec[1].aw)
                     \o [i \in 1..Len(applied_moves) |->
                            <<applied_moves[i][1], applied_moves[i][2]>>]
        IN /\ numbers_list # None
           /\ Len(numbers_list[1]) = Len(log)
           /\ \A i \in 1..Len(log) :
                 numbers_list[1][i] = <<log[i][1], log[i][2], i>>

\* C4 witness: a point set by addBlack, cleared by addEmpty and played on again is
\* numbered 1 and 2.
C4_ClearedPointNumbered ==
    /\ bpc = "done"
    /\ render[1].numbering = "all"
    /\ rec[1].ab = <<<<"a", "a">>>>
    /\ rec[1].ae = <<<<"a", "a">>>>
    /\ Len(applied_moves) = 1
    /\ numbers_list = Some(<<<<1, 1, 1>>, <<1, 1, 2>>>>)

(***************************************************************************)
(* load_config, make_go_board_spec, render_svg, export_variants            *)
(***************************************************************************)
VBoard == <<"b", "o", "a", "r", "d">>
VStones == <<"s", "t", "o", "n", "e", "s">>
VBoth == <<"b", "o", "t", "h">>
Transparent == <<"t", "r", "a", "n", "s", "p", "a", "r", "e", "n", "t">>
UseConfigBackground ==
    <<"u", "s", "e", "_", "c", "o", "n", "f", "i", "g", "_",
      "b", "a", "c", "k", "g", "r", "o", "u", "n", "d">>
ColorWhite == <<"w", "h", "i", "t", "e">>
FillBlack == <<"#", "0", "0", "0", "0", "0", "0">>
FillWhite == <<"#", "f", "f", "f", "f", "f", "f">>

\* str(value).strip().lower()
StripLower(str) == Lower(RStrip(LStrip(str)))

\* the values _coerce_literal allows for export.variants[]
AllowedVariants == {VBoard, VStones, VBoth}

\* grid_size not in (9, 13, 19) is fatal
GridSizeOk(n) == n \in {9, 13, 19}

\* export_raw.get("variants") or ["both"]
VariantsOrDefault(raw) == IF raw = <<>> THEN <<VBoth>> ELSE raw

\* _coerce_literal is fatal for a value that is not allowed
CoerceFails(raw) ==
    \E i \in 1..Len(VariantsOrDefault(raw)) :
        StripLower(VariantsOrDefault(raw)[i]) \notin AllowedVariants

\* the values _coerce_literal allows for sgf.render.mode and sgf.render.numbering
ModePosition == <<"p", "o", "s", "i", "t", "i", "o", "n">>
ModeMoves == <<"m", "o", "v", "e", "s">>
NumberingNone == <<"n", "o", "n", "e">>
NumberingMoves == <<"m", "o", "v", "e", "s">>
NumberingAll == <<"a", "l", "l">>
AllowedModes == {ModePosition, ModeMoves}
AllowedNumberings == {NumberingNone, NumberingMoves, NumberingAll}

\* sgf_raw = raw.get("sgf", {}) or {}, with the defaults of the fields load_config
\* reads; file is what open(path) would read, None when the path names no file
SgfOrDefault(raw) ==
    IF raw = None
    THEN [enabled |-> FALSE, path |-> <<>>, file |-> None, mode |-> ModePosition,
          moves_limit |-> 0, numbering |-> NumberingNone]
    ELSE raw[1]

\* a mode or numbering as build_stones_and_numbers compares it
OptionName(chars) ==
    IF chars = ModePosition THEN "position"
    ELSE IF chars = ModeMoves THEN "moves"
    ELSE IF chars = NumberingNone THEN "none"
    ELSE "all"

\* _coerce_literal is fatal for a mode or a numbering that is not allowed
CoerceRenderFails(raw) ==
    \/ StripLower(SgfOrDefault(raw).mode) \notin AllowedModes
    \/ StripLower(SgfOrDefault(raw).numbering) \notin AllowedNumberings

\* SGFOptions(enabled, path, render=SGFRenderOptions(mode, moves_limit, numbering))
SgfOptions(raw) ==
    [enabled |-> SgfOrDefault(raw).enabled,
     path |-> SgfOrDefault(raw).path,
     render |-> [mode |-> OptionName(StripLower(SgfOrDefault(raw).mode)),
                 moves_limit |-> SgfOrDefault(raw).moves_limit,
                 numbering |-> OptionName(StripLower(SgfOrDefault(raw).numbering))]]

\* load_config: exits on a bad grid size, mode, numbering or variant, else returns
\* the Config
LoadConfig ==
    /\ epc = "start"
    /\ IF \/ ~GridSizeOk(raw_grid_size)
          \/ CoerceRenderFails(raw_sgf)
          \/ CoerceFails(raw_variants)
       THEN /\ epc' = "exit"
            /\ UNCHANGED cfg
       ELSE /\ cfg' = Some([grid_size |-> raw_grid_size,
                            background_color |-> ColorWhite,
                            sgf |-> SgfOptions(raw_sgf),
                            variants |->
                                [i \in 1..Len(VariantsOrDefault(raw_variants)) |->
                                    StripLower(VariantsOrDefault(raw_variants)[i])],
                            board_background |-> UseConfigBackground,
                            stones_background |-> Transparent,
                            both_background |-> UseConfigBackground])
            /\ epc' = "loaded"
    /\ UNCHANGED <<raw_grid_size, raw_variants, raw_sgf, spec, in_stones, in_numbers,
                   vi, written, warnings>>
    /\ UNCHANGED <<parseVars, buildVars>>

\* (r1, c1) < (r2, c2) as Python orders tuples
PointLess(a, b) == a[1] < b[1] \/ (a[1] = b[1] /\ a[2] < b[2])

RECURSIVE InsertPoint(_, _)
InsertPoint(sorted, pt) ==
    IF sorted = <<>> THEN <<pt>>
    ELSE IF PointLess(pt, Head(sorted)) THEN <<pt>> \o sorted
    ELSE <<Head(sorted)>> \o InsertPoint(Tail(sorted), pt)

RECURSIVE SortedFrom(_, _)
SortedFrom(pts, acc) ==
    IF pts = <<>> THEN acc ELSE SortedFrom(Tail(pts), InsertPoint(acc, Head(pts)))

\* a mutant of SortedPoints: the points as listed
UnsortedPoints(pts) == pts

\* sorted(pts)
SortedPoints(pts) == SortedFrom(pts, <<>>)

\* the points listed by make_go_board_spec, before sorting
HoshiPoints(size) ==
    IF size = 19
    THEN LET k == 4
             mid == 10
         IN << <<k, k>>, <<k, mid>>, <<k, 19 - k + 1>>,
               <<mid, k>>, <<mid, mid>>, <<mid, 19 - k + 1>>,
               <<19 - k + 1, k>>, <<19 - k + 1, mid>>, <<19 - k + 1, 19 - k + 1>> >>
    ELSE IF size = 13
    THEN LET k == 4
             mid == 7
         IN << <<k, k>>, <<k, 13 - k + 1>>, <<13 - k + 1, k>>,
               <<13 - k + 1, 13 - k + 1>>, <<mid, mid>> >>
    ELSE LET k == 3
             mid == 5
         IN << <<k, k>>, <<k, 9 - k + 1>>, <<9 - k + 1, k>>,
               <<9 - k + 1, 9 - k + 1>>, <<mid, mid>> >>

\* make_go_board_spec: None stands for the fatal exit on an unsupported size
make_go_board_spec(size) ==
    IF size \in {19, 13, 9}
    THEN Some([size |-> size,
               intersections |-> size * size,
               mid |-> (size + 1) \div 2,
               hoshi |-> SortedPoints(HoshiPoints(size))])
    ELSE None

\* main: spec = make_go_board_spec(cfg.grid_size), then export_variants is entered
MakeSpec ==
    /\ epc = "loaded"
    /\ spec' = make_go_board_spec(cfg[1].grid_size)
    /\ epc' = IF make_go_board_spec(cfg[1].grid_size) = None THEN "exit" ELSE "export"
    /\ vi' = 1
    /\ UNCHANGED <<raw_grid_size, raw_variants, raw_sgf, cfg, in_stones, in_numbers,
                   written, warnings>>
    /\ UNCHANGED <<parseVars, buildVars>>

\* choose_background: <<include_background_rect, color>>
choose_background(setting, config_bg) ==
    IF StripLower(setting) = Transparent THEN <<FALSE, config_bg>>
    ELSE IF StripLower(setting) = UseConfigBackground THEN <<TRUE, config_bg>>
    ELSE <<TRUE, setting>>

\* one element of the markup; a place is given by its row and column on the board
\* (pt(i) = margin + (i - 1) * spacing grows with i)
Element(kind, row, col, fill, num) ==
    [kind |-> kind, row |-> row, col |-> col, fill |-> fill, num |-> num]

\* Python's truth of an Optional list: neither None nor empty
Truthy(opt) == opt # None /\ opt[1] # <<>>

\* a mutant of DrawsNumbers: the numbers are drawn whether or not stones are
DrawsNumbersAlone(stns, nums) == Truthy(nums)

\* if stones: ... if numbers:
DrawsNumbers(stns, nums) == Truthy(stns) /\ Truthy(nums)

\* render_svg: the elements of the markup in the order they are appended
render_svg(sp, include_grid, include_background_rect, background_color, stns, nums) ==
    LET n == sp.size
        rect == IF include_background_rect
                THEN <<Element("rect", 0, 0, background_color, 0)>>
                ELSE <<>>
        lines == IF include_grid
                 THEN [k \in 1..(2 * n) |->
                          IF k % 2 = 1
                          THEN Element("line", (k + 1) \div 2, 0, <<>>, 0)
                          ELSE Element("line", 0, k \div 2, <<>>, 0)]
                 ELSE <<>>
        stars == IF include_grid
                 THEN [k \in 1..Len(sp.hoshi) |->
                          Element("hoshi", sp.hoshi[k][1], sp.hoshi[k][2], <<>>, 0)]
                 ELSE <<>>
        discs == IF Truthy(stns)
                 THEN [k \in 1..Len(stns[1]) |->
                          Element("stone", stns[1][k][1], stns[1][k][2],
                                  IF stns[1][k][3] = Black THEN FillBlack ELSE FillWhite,
                                  0)]
                 ELSE <<>>
        texts == IF DrawsNumbers(stns, nums)
                 THEN [k \in 1..Len(nums[1]) |->
                          Element("text", nums[1][k][1], nums[1][k][2], <<>>,
                                  nums[1][k][3])]
                 ELSE <<>>
    IN <<Element("svg", n, n, <<>>, 0)>> \o rect \o lines \o stars \o discs \o texts
           \o <<Element("end", 0, 0, <<>>, 0)>>

\* the file written for a variant
File(variant, sp, markup) == [variant |-> variant, size |-> sp.size, markup |-> markup]

\* one round of the loop of export_variants
ExportVariant ==
    /\ epc = "export"
    /\ vi <= Len(cfg[1].variants)
    /\ LET v == cfg[1].variants[vi]
           c == cfg[1]
       IN IF v = VBoard
          THEN LET bg == choose_background(c.board_background, c.background_color)
               IN /\ written' = Append(written,
                        File(v, spec[1],
                             render_svg(spec[1], TRUE, bg[1], bg[2], None, None)))
                  /\ UNCHANGED warnings
          ELSE IF v = VStones
          THEN LET bg == choose_background(c.stones_background, c.background_color)
               IN /\ written' = Append(written,
                        File(v, spec[1],
                             render_svg(spec[1], FALSE, bg[1], bg[2], in_stones,
                                        in_numbers)))
                  /\ UNCHANGED warnings
          ELSE IF v = VBoth
          THEN LET bg == choose_background(c.both_background, c.background_color)
               IN /\ written' = Append(written,
                        File(v, spec[1],
                             render_svg(spec[1], TRUE, bg[1], bg[2], in_stones,
                                        in_numbers)))
                  /\ UNCHANGED warnings
          ELSE /\ warnings' = Append(warnings, v)
               /\ UNCHANGED written
    /\ vi' = vi + 1
    /\ UNCHANGED <<raw_grid_size, raw_variants, raw_sgf, cfg, spec, in_stones,
                   in_numbers, epc>>
    /\ UNCHANGED <<parseVars, buildVars>>

\* the loop of export_variants ends and main returns
ExportDone ==
    /\ epc = "export"
    /\ vi > Len(cfg[1].variants)
    /\ epc' = "done"
    /\ UNCHANGED <<raw_grid_size, raw_variants, raw_sgf, cfg, spec, in_stones,
                   in_numbers, vi, written, warnings>>
    /\ UNCHANGED <<parseVars, buildVars>>

NextExport ==
    \/ LoadConfig
    \/ MakeSpec
    \/ ExportVariant
    \/ ExportDone

(***************************************************************************)
(* Inputs of the main program                                              *)
(***************************************************************************)
MaxVariants == 2
MaxOverlay == 1

\* grid sizes of config.json: the three boards and a size that is none
GridSizes == {9, 10, 13, 19}

\* variant names of config.json: two as the program spells them, one that
\* _coerce_literal normalises, one it does not know
RawVariants ==
    {VBoard, VStones, <<" ", "B", "o", "t", "h">>, <<"b", "o", "g", "u", "s">>}

OverlayPoints == {<<1, 1>>, <<1, 2>>}

\* stone lists as the builder returns them: no point twice
StoneLayouts ==
    {l \in SeqsUpTo(OverlayPoints \X {Black, White}, MaxOverlay) :
        \A i, k \in 1..Len(l) : i # k => l[i][1] # l[k][1]}

\* number lists as the builder returns them: numbered 1, 2, ...
NumberAnnotations ==
    {[i \in 1..Len(l) |-> <<l[i][1], l[i][2], i>>] :
        l \in SeqsUpTo(OverlayPoints, MaxOverlay)}

InitExport ==
    /\ raw_grid_size \in GridSizes
    /\ raw_variants \in SeqsUpTo(RawVariants, MaxVariants)
    /\ raw_sgf = None
    /\ cfg = None
    /\ spec = None
    /\ in_stones \in {None} \cup
           {Some([i \in 1..Len(l) |-> <<l[i][1][1], l[i][1][2], l[i][2]>>]) :
               l \in StoneLayouts}
    /\ in_numbers \in {None} \cup {Some(l) : l \in NumberAnnotations}
    \* main hands over None and None, or what the builder returned: a list of
    \* stones with the numbers or None
    /\ in_stones = None => in_numbers = None
    /\ vi = 0
    /\ written = <<>>
    /\ warnings = <<>>
    /\ epc = "start"
    /\ ParseIdle
    /\ BuildIdle

SpecExport == InitExport /\ [][NextExport]_vars

(***************************************************************************)
(* Claims about the configuration, the geometry and the export             *)
(***************************************************************************)
\* the configured variant names that are board, stones or both once stripped and
\* lower-cased, in list order
RecognizedVariants ==
    LET listed == IF raw_variants = <<>> THEN <<VBoth>> ELSE raw_variants
        names == [i \in 1..Len(listed) |-> StripLower(listed[i])]
    IN SelectSeq(names, LAMBDA v : v \in {VBoard, VStones, VBoth})

\* C7: an unrecognized variant name is not fatal: when the program ends, every
\* recognized variant of the configured list, before and after it, has been
\* rendered and written exactly once, in list order.
C7_UnknownVariantSkipped ==
    (epc \in {"done", "exit"} /\ raw_grid_size \in {9, 13, 19}) =>
        /\ Len(written) = Len(RecognizedVariants)
        /\ \A i \in 1..Len(written) : written[i].variant = RecognizedVariants[i]

\* C8: the star points of a board are 9 for size 19 and 5 otherwise, ascending by
\* row then column without duplicates, and closed under the half turn and the
\* quarter turn of the board.
C8_StarPoints ==
    spec # None =>
        LET h == spec[1].hoshi
            n == spec[1].size
            stars == {h[i] : i \in 1..Len(h)}
        IN /\ n \in {9, 13, 19}
           /\ Len(h) = IF n = 19 THEN 9 ELSE 5
           /\ \A i \in 1..(Len(h) - 1) :
                 \/ h[i][1] < h[i + 1][1]
                 \/ (h[i][1] = h[i + 1][1] /\ h[i][2] < h[i + 1][2])
           /\ \A pt \in stars :
                 /\ <<n + 1 - pt[1], n + 1 - pt[2]>> \in stars
                 /\ <<pt[2], n + 1 - pt[1]>> \in stars

\* C8 witness: the spec of the 13 board has been made, with its centre point third.
C8_StarPointsOf13 ==
    /\ spec # None
    /\ spec[1].size = 13
    /\ Len(spec[1].hoshi) = 5
    /\ spec[1].hoshi[3] = <<7, 7>>

\* the elements of one kind in a markup
OfKind(markup, kind) == SelectSeq(markup, LAMBDA e : e.kind = kind)

\* rows and columns of the elements of one kind, with their numbers
PlacesOf(markup, kind) ==
    LET es == OfKind(markup, kind) IN [i \in 1..Len(es) |-> <<es[i].row, es[i].col, es[i].num>>]

SuppliedStones == IF in_stones = None THEN <<>> ELSE in_stones[1]

SuppliedNumbers == IF in_numbers = None THEN <<>> ELSE in_numbers[1]

\* the markup has the grid and the star points of the board
HasGrid(f) ==
    /\ Len(OfKind(f.markup, "line")) = 2 * f.size
    /\ Len(OfKind(f.markup, "hoshi")) = IF f.size = 19 THEN 9 ELSE 5

HasNoGrid(f) ==
    /\ OfKind(f.markup, "line") = <<>>
    /\ OfKind(f.markup, "hoshi") = <<>>

\* the markup has every stone supplied
HasStones(f) ==
    PlacesOf(f.markup, "stone") =
        [i \in 1..Len(SuppliedStones) |-> <<SuppliedStones[i][1], SuppliedStones[i][2], 0>>]

\* the markup has every number supplied
HasNumbers(f) == PlacesOf(f.markup, "text") = SuppliedNumbers

HasNoOverlay(f) ==
    /\ OfKind(f.markup, "stone") = <<>>
    /\ OfKind(f.markup, "text") = <<>>

NumbersOnlyWithStones(f) ==
    OfKind(f.markup, "text") # <<>> => OfKind(f.markup, "stone") # <<>>

\* C9 (as amended): the board variant has the grid and star points and no stone or
\* number; the stones variant has no grid line or star point, every stone, and the
\* numbers only when there is a stone (with no stone supplied it has no number
\* either); the both variant has the grid, the star points and the same overlay; no
\* markup has a number without a stone.
C9_VariantLayers ==
    \A i \in 1..Len(written) :
        LET f == written[i]
            overlay == /\ HasStones(f)
                       /\ IF SuppliedStones # <<>>
                          THEN HasNumbers(f)
                          ELSE OfKind(f.markup, "text") = <<>>
        IN /\ f.variant = VBoard => (HasGrid(f) /\ HasNoOverlay(f))
           /\ f.variant = VStones => (HasNoGrid(f) /\ overlay)
           /\ f.variant = VBoth => (HasGrid(f) /\ overlay)
           /\ NumbersOnlyWithStones(f)

\* C9 witness: a board file and a stones file have been written, the second with a
\* stone and a number.
C9_BoardAndStonesWritten ==
    /\ epc = "done"
    /\ Len(written) = 2
    /\ written[1].variant = VBoard
    /\ written[2].variant = VStones
    /\ Len(OfKind(written[2].markup, "stone")) = 1
    /\ Len(OfKind(written[2].markup, "text")) = 1

\* C9 as stated: the stones and both variants have the stones and the numbers
\* supplied, whatever they are.
C9_OverlayAlwaysDrawn ==
    \A i \in 1..Len(written) :
        LET f == written[i]
        IN /\ f.variant = VBoard => (HasGrid(f) /\ HasNoOverlay(f))
           /\ f.variant = VStones => (HasNoGrid(f) /\ HasStones(f) /\ HasNumbers(f))
           /\ f.variant = VBoth => (HasGrid(f) /\ HasStones(f) /\ HasNumbers(f))
           /\ NumbersOnlyWithStones(f)

(***************************************************************************)
(* main: load_config, make_go_board_spec, then - with an SGF file at hand  *)
(* - parse_sgf_minimal, the SZ override and build_stones_and_numbers, then *)
(* export_variants                                                         *)
(***************************************************************************)
\* spec = make_go_board_spec(cfg.grid_size)
MainSpec ==
    /\ epc = "loaded"
    /\ spec' = make_go_board_spec(cfg[1].grid_size)
    /\ epc' = IF make_go_board_spec(cfg[1].grid_size) = None THEN "exit" ELSE "sgf"
    /\ UNCHANGED <<raw_grid_size, raw_variants, raw_sgf, cfg, in_stones, in_numbers, vi,
                   written, warnings>>
    /\ UNCHANGED <<parseVars, buildVars>>

\* cfg.sgf.enabled, cfg.sgf.path and os.path.exists(cfg.sgf.path) all hold
SgfAtHand ==
    /\ cfg[1].sgf.enabled
    /\ cfg[1].sgf.path # <<>>
    /\ SgfOrDefault(raw_sgf).file # None

\* the SGF is disabled, has no path or names no file: export_variants is entered
\* with stones = None and numbers = None
MainSkipSgf ==
    /\ epc = "sgf"
    /\ ~SgfAtHand
    /\ epc' = "export"
    /\ vi' = 1
    /\ UNCHANGED <<raw_grid_size, raw_variants, raw_sgf, cfg, spec, in_stones,
                   in_numbers, written, warnings>>
    /\ UNCHANGED <<parseVars, buildVars>>

\* sgf_text = f.read(); parse_sgf_minimal(sgf_text) is called
MainParse ==
    /\ epc = "sgf"
    /\ SgfAtHand
    /\ text' = SgfOrDefault(raw_sgf).file[1]
    /\ ppc' = "start"
    /\ epc' = "parse"
    /\ UNCHANGED <<s, idx, j, ident, vals, val_chars, props, order, parsed>>
    /\ UNCHANGED <<raw_grid_size, raw_variants, raw_sgf, cfg, spec, in_stones,
                   in_numbers, vi, written, warnings>>
    /\ UNCHANGED buildVars

\* parsed.size in (9, 13, 19)
SizeOverrides(size) == size \in {Some(9), Some(13), Some(19)}

\* parse_sgf_minimal has returned: the SZ override, then build_stones_and_numbers is
\* called with the parsed record and cfg.sgf.render
MainBuild ==
    /\ epc = "parse"
    /\ ppc = "done"
    /\ spec' = IF SizeOverrides(parsed[1].size)
               THEN make_go_board_spec(parsed[1].size[1])
               ELSE spec
    /\ rec' = parsed
    /\ render' = Some(cfg[1].sgf.render)
    /\ bpc' = "called"
    /\ epc' = "build"
    /\ UNCHANGED <<stones, sequence, applied_moves, stones_list, numbers_list>>
    /\ UNCHANGED <<raw_grid_size, raw_variants, raw_sgf, cfg, in_stones, in_numbers, vi,
                   written, warnings>>
    /\ UNCHANGED parseVars

\* stones, numbers = build_stones_and_numbers(...); export_variants is entered
MainExport ==
    /\ epc = "build"
    /\ bpc = "done"
    /\ in_stones' = Some(stones_list)
    /\ in_numbers' = numbers_list
    /\ epc' = "export"
    /\ vi' = 1
    /\ UNCHANGED <<raw_grid_size, raw_variants, raw_sgf, cfg, spec, written, warnings>>
    /\ UNCHANGED <<parseVars, buildVars>>

NextMain ==
    \/ LoadConfig
    \/ MainSpec
    \/ MainSkipSgf
    \/ MainParse
    \/ ParseStart
    \/ OuterSkip
    \/ OuterOther
    \/ OuterIdent
    \/ BracketOpen
    \/ BracketEscape
    \/ BracketClose
    \/ BracketChar
    \/ BracketEof
    \/ PropertyDone
    \/ ParseFinish
    \/ MainBuild
    \/ Build
    \/ MainExport
    \/ ExportVariant
    \/ ExportDone

(***************************************************************************)
(* Inputs of main: config.json and the SGF file                            *)
(***************************************************************************)
MaxFileItems == 2

\* pieces of an SGF file: sizes in and out of (9, 13, 19), points on every board
\* (aa), on the larger boards only (jj) and on none (tt), a clear, an escape after a
\* stray digit, and a move whose bracket never closes
FileItems ==
    { <<"S", "Z", "[", "9", "]">>,
      <<"S", "Z", "[", "1", "0", "]">>,
      <<"A", "B", "[", "j", "j", "]">>,
      <<";", "B", "[", "t", "t", "]">>,
      <<"W", "[", "a", "a", "]">>,
      <<"A", "E", "[", "j", "j", "]">>,
      <<"1", "C", "[", "\\", "]", "]">>,
      <<"B", "[", "a">> }

FileTexts == {Concat(items) : items \in SeqsUpTo(FileItems, MaxFileItems)}

\* grid sizes of config.json: two boards and a size that is none
MainGridSizes == {9, 10, 19}

\* "export.variants" of config.json: absent, or stones alone
MainVariants == {<<>>, <<VStones>>}

\* modes and numberings of config.json: as the program spells them, as
\* _coerce_literal normalises them, and a mode it does not know
RawModes == {ModePosition, <<" ", "M", "o", "v", "e", "s">>, <<"r", "e", "p", "l", "a", "y">>}
RawNumberings == {NumberingNone, NumberingMoves, <<"A", "L", "L">>}

\* the "sgf" sections: disabled, enabled without a path, enabled with a path that
\* names no file, enabled with a file
SgfSections ==
    {[enabled |-> e, path |-> p, file |-> f, mode |-> m, moves_limit |-> l,
      numbering |-> n] :
        e \in BOOLEAN, p \in {<<>>, <<"g">>}, f \in {None},
        m \in {ModePosition}, l \in {0}, n \in {NumberingNone}}
    \cup
    {[enabled |-> TRUE, path |-> <<"g">>, file |-> Some(f), mode |-> m,
      moves_limit |-> l, numbering |-> n] :
        f \in FileTexts, m \in RawModes, l \in 0..1, n \in RawNumberings}

InitMain ==
    /\ raw_grid_size \in MainGridSizes
    /\ raw_variants \in MainVariants
    /\ raw_sgf \in {None} \cup {Some(r) : r \in SgfSections}
    /\ cfg = None
    /\ spec = None
    /\ in_stones = None
    /\ in_numbers = None
    /\ vi = 0
    /\ written = <<>>
    /\ warnings = <<>>
    /\ epc = "start"
    /\ ParseIdle
    /\ BuildIdle

SpecMain == InitMain /\ [][NextMain]_vars

(***************************************************************************)
(* Claims about main                                                       *)
(***************************************************************************)
\* render_svg is about to be, or has been, called by export_variants
HandedToRenderer == epc \in {"export", "done"}

\* the board rendered is one of the three boards
SizeSupported == spec # None /\ spec[1].size \in {9, 13, 19}

\* every entry of an Optional list of (row, col, ...) lies on the board of size n
OnBoard(opt, n) ==
    opt # None =>
        \A i \in 1..Len(opt[1]) :
            /\ 1 <= opt[1][i][1] /\ opt[1][i][1] <= n
            /\ 1 <= opt[1][i][2] /\ opt[1][i][2] <= n

\* the board size in use once main has a spec is in {9, 13, 19}; an SZ outside
\* that set leaves the configured size
SizeAlwaysSupported ==
    /\ (epc \in {"sgf", "parse", "build", "export", "done"} => SizeSupported)
    /\ (HandedToRenderer /\ parsed # None /\ ~SizeOverrides(parsed[1].size)
            => spec[1].size = cfg[1].grid_size)
    /\ (HandedToRenderer /\ parsed # None /\ SizeOverrides(parsed[1].size)
            => spec[1].size = parsed[1].size[1])

\* an SZ[10] in the file was read as 10 and the configured 19 is rendered
SizeOutsideNotApplied ==
    /\ epc = "done"
    /\ parsed # None
    /\ parsed[1].size = Some(10)
    /\ spec[1].size = 19
    /\ written # <<>>

\* C11: in the full pipeline (parse, then build, then export) the board size
\* rendered is in {9, 13, 19}, and every stone and every number handed to the
\* renderer lies on that board: 1 <= row <= size and 1 <= col <= size
C11_OverlayOnBoard ==
    HandedToRenderer =>
        /\ SizeSupported
        /\ OnBoard(in_stones, spec[1].size)
        /\ OnBoard(in_numbers, spec[1].size)

====
